---- MODULE Spec2Model ----
(***************************************************************************)
(* Model of the ceresdb client's connection layer:                         *)
(*   - InnerClient (src/src/db_client/inner.rs): a lazily initialised      *)
(*     session cell (tokio OnceCell) filled through the factory;           *)
(*   - RpcClientImpl, AuthInterceptor and RpcClientImplFactory             *)
(*     (src/src/rpc_client/rpc_client_impl.rs): the request dispatch with  *)
(*     credentials, deadline and response-header validation.               *)
(* Strings that the code inspects byte by byte (tenant, token, endpoint)   *)
(* are sequences of byte values.                                           *)
(***************************************************************************)
EXTENDS Integers, Sequences, FiniteSets, TLC

\* Number of calls issued on the one client instance.
NumCalls == 2

Calls == 1..NumCalls

\* Option<T>: None is the empty sequence, Some(v) the sequence of v alone.
None == <<>>
Some(v) == <<v>>
unwrap_or(opt, default) == IF opt = None THEN default ELSE opt[1]

--------------------------------------------------------------------------
\* Inputs

\* "t1", "t2" and "t\n" (a raw newline is illegal in transport metadata).
Tenants == { <<116, 49>>, <<116, 50>>, <<116, 10>> }

\* "k", "k2" and "\n".
Tokens == { <<107>>, <<107, 50>>, <<10>> }

\* The optional per-call timeout override of a Request Context.
Timeouts == { None, Some(9) }

\* The contexts callers use: valid ones that differ in tenant and timeout
\* or in the token alone, and one for each way the credentials can be
\* unencodable.
RpcContexts ==
    { x \in [tenant : Tenants, token : Tokens, timeout : Timeouts] :
        \/ x.tenant = <<116, 49>> /\ x.timeout = None
        \/ x.tenant = <<116, 50>> /\ x.token = <<107>> /\ x.timeout # None
        \/ x.tenant = <<116, 10>> /\ x.token # <<107, 50>>
                                 /\ x.timeout = None }

\* "h:1" (well formed) and "h 1" (a space is illegal in a URI).
Endpoints == { <<104, 58, 49>>, <<104, 32, 49>> }

\* The factory's options: three durations, all different from one another
\* and from the override a context may carry.
RpcOptionsSet ==
    { [connect_timeout |-> 3, read_timeout |-> 5, write_timeout |-> 7] }

RpcConfigSet ==
    [keep_alive_while_idle : BOOLEAN, keep_alive_timeout : {2},
     keep_alive_interval : {4}]

\* The code of a response header that reports success.
SuccessCode == 200

\* Response headers a server may send back: none, success, a failure.
Headers ==
    { None,
      Some([code |-> SuccessCode, error |-> ""]),
      Some([code |-> 1, error |-> "tenant not found"]) }

Payloads == { "rows" }

Responses == [header : Headers, payload : Payloads]

--------------------------------------------------------------------------
\* Pure functions of rpc_client_impl.rs

RPC_HEADER_TENANT_KEY == "x-ceresdb-access-tenant"

is_ok(code) == code = SuccessCode

Ok(v) == [ok |-> TRUE, value |-> v]
Err(e) == [ok |-> FALSE, error |-> e]

\* str::parse::<MetadataValue<Ascii>>(): every byte must be a visible
\* character or a tab; the value keeps the bytes as they are.
is_valid_byte(b) == (b >= 32 /\ b # 127) \/ b = 9

parse(s) ==
    IF \A i \in 1..Len(s) : is_valid_byte(s[i])
    THEN Ok(s)
    ELSE Err("InvalidMetadataValue")

\* A constructor that looks at the token first.
AuthInterceptor_new_token_first(ctx) ==
    IF ~parse(ctx.token).ok
    THEN Err([kind |-> "AuthFail", code |-> "InvalidTokenMeta",
              msg |-> <<"invalid token", ctx.token>>])
    ELSE IF ~parse(ctx.tenant).ok
    THEN Err([kind |-> "AuthFail", code |-> "InvalidTenantMeta",
              msg |-> <<"invalid tenant", ctx.tenant>>])
    ELSE Ok([tenant |-> parse(ctx.tenant).value,
             _token |-> parse(ctx.token).value])

AuthInterceptor_new(ctx) ==
    IF ~parse(ctx.tenant).ok
    THEN Err([kind |-> "AuthFail", code |-> "InvalidTenantMeta",
              msg |-> <<"invalid tenant", ctx.tenant>>])
    ELSE IF ~parse(ctx.token).ok
    THEN Err([kind |-> "AuthFail", code |-> "InvalidTokenMeta",
              msg |-> <<"invalid token", ctx.token>>])
    ELSE Ok([tenant |-> parse(ctx.tenant).value,
             _token |-> parse(ctx.token).value])

\* An interceptor that forwards the token as well, under a key of its own.
AuthInterceptor_call_with_token(interceptor, request) ==
    [request EXCEPT !.metadata =
        [k \in (DOMAIN request.metadata)
                   \cup {RPC_HEADER_TENANT_KEY, "x-ceresdb-access-token"} |->
            IF k = RPC_HEADER_TENANT_KEY
            THEN interceptor.tenant
            ELSE IF k = "x-ceresdb-access-token"
            THEN interceptor._token
            ELSE request.metadata[k]]]

\* An interceptor that stamps the token where the tenant belongs.
AuthInterceptor_call_token(interceptor, request) ==
    [request EXCEPT !.metadata =
        [k \in (DOMAIN request.metadata) \cup {RPC_HEADER_TENANT_KEY} |->
            IF k = RPC_HEADER_TENANT_KEY
            THEN interceptor._token
            ELSE request.metadata[k]]]

\* Interceptor::call: insert the tenant under the fixed metadata key.
AuthInterceptor_call(interceptor, request) ==
    [request EXCEPT !.metadata =
        [k \in (DOMAIN request.metadata) \cup {RPC_HEADER_TENANT_KEY} |->
            IF k = RPC_HEADER_TENANT_KEY
            THEN interceptor.tenant
            ELSE request.metadata[k]]]

\* A check_status that reports the failure without the server's message.
check_status_no_msg(header) ==
    IF ~is_ok(header.code)
    THEN Err([kind |-> "Server", code |-> header.code, msg |-> ""])
    ELSE Ok(<<>>)

check_status(header) ==
    IF ~is_ok(header.code)
    THEN Err([kind |-> "Server", code |-> header.code, msg |-> header.error])
    ELSE Ok(<<>>)

EmptyMetadata == [k \in {} |-> <<>>]

\* A make_request that ignores the override of the context.
make_request_default_only(ctx, req, default_timeout) ==
    [message |-> req, metadata |-> EmptyMetadata, timeout |-> default_timeout]

make_request(ctx, req, default_timeout) ==
    LET timeout == unwrap_or(ctx.timeout, default_timeout)
    IN  [message |-> req, metadata |-> EmptyMetadata, timeout |-> timeout]

make_query_request(self, ctx, req) ==
    make_request(ctx, req, self.default_read_timeout)

make_write_request(self, ctx, req) ==
    make_request(ctx, req, self.default_write_timeout)

\* "http://"
Scheme == <<104, 116, 116, 112, 58, 47, 47>>

\* A prefix put in front of an endpoint that was prefixed already.
make_endpoint_with_scheme_twice(e) == Scheme \o Scheme \o e

make_endpoint_with_scheme(e) == Scheme \o e

\* Endpoint::from_shared: the string must parse as a URI; a control
\* character or a space anywhere in it is rejected, and so is an empty
\* authority.
is_uri_byte(b) == b > 32 /\ b < 127

from_shared(uri) ==
    IF /\ Len(uri) > Len(Scheme)
       /\ SubSeq(uri, 1, Len(Scheme)) = Scheme
       /\ \A i \in 1..Len(uri) : is_uri_byte(uri[i])
    THEN Ok([uri |-> uri])
    ELSE Err("InvalidUri")

\* A builder chain that sets up keep-alive whatever the configuration says.
configure_always_keep_alive(configured_endpoint, opts, config) ==
    [uri |-> configured_endpoint.uri,
     connect_timeout |-> opts.connect_timeout,
     keep_alive_timeout |-> Some(config.keep_alive_timeout),
     keep_alive_while_idle |-> TRUE,
     http2_keep_alive_interval |-> Some(config.keep_alive_interval)]

\* The builder chain of RpcClientImplFactory::build.
configure(configured_endpoint, opts, config) ==
    IF config.keep_alive_while_idle
    THEN [uri |-> configured_endpoint.uri,
          connect_timeout |-> opts.connect_timeout,
          keep_alive_timeout |-> Some(config.keep_alive_timeout),
          keep_alive_while_idle |-> TRUE,
          http2_keep_alive_interval |-> Some(config.keep_alive_interval)]
    ELSE [uri |-> configured_endpoint.uri,
          connect_timeout |-> opts.connect_timeout,
          keep_alive_timeout |-> None,
          keep_alive_while_idle |-> FALSE,
          http2_keep_alive_interval |-> None]

RpcClientImpl_new(channel, default_read_timeout, default_write_timeout) ==
    [channel |-> channel,
     default_read_timeout |-> default_read_timeout,
     default_write_timeout |-> default_write_timeout]

\* A tail that swallows a transport failure and answers an empty message.
on_response_swallow(transport) ==
    IF ~transport.ok
    THEN Ok([header |-> None, payload |-> ""])
    ELSE LET resp == transport.value
             taken == [resp EXCEPT !.header = None]
         IN  IF resp.header # None
             THEN IF check_status(resp.header[1]).ok
                  THEN Ok(taken)
                  ELSE check_status(resp.header[1])
             ELSE Ok(taken)

\* The tail of query, write and route once the transport has answered:
\* map_err(Error::Rpc), header.take(), check_status.
on_response(transport) ==
    IF ~transport.ok
    THEN Err([kind |-> "Rpc", source |-> transport.error])
    ELSE LET resp == transport.value
             taken == [resp EXCEPT !.header = None]
         IN  IF resp.header # None
             THEN IF check_status(resp.header[1]).ok
                  THEN Ok(taken)
                  ELSE check_status(resp.header[1])
             ELSE Ok(taken)

--------------------------------------------------------------------------
\* Pure functions of inner.rs

\* .and_then(QueryResponse::try_from): the conversion may reject the
\* message; an error of the call passes through untouched.
query_internal_result(rpc, converts) ==
    IF rpc.ok
    THEN IF converts
         THEN Ok([type |-> "QueryResponse", pb |-> rpc.value])
         ELSE Err([kind |-> "Other", source |-> "try_from"])
    ELSE rpc

\* .map(|resp_pb| resp_pb.into())
write_internal_result(rpc) ==
    IF rpc.ok
    THEN Ok([type |-> "WriteResponse", pb |-> rpc.value])
    ELSE rpc

--------------------------------------------------------------------------
\* State

VARIABLES
    endpoint,       \* InnerClient.endpoint
    rpc_opts,       \* RpcClientImplFactory.rpc_opts
    grpc_config,    \* RpcClientImplFactory.grpc_config
    inner_client,   \* InnerClient.inner_client, the OnceCell: its value,
                    \* and the semaphore that guards its initialisation
    pc,             \* where each call stands
    op,             \* "query", "write" or "route"
    ctx,            \* the call's RpcContext
    msg,            \* the call's request message
    client_handle,  \* the session handle the call dispatches through
    request,        \* the request the call put on the wire, if any
    transport,      \* what the transport answered to the call, if anything
    rpc_result,     \* what RpcClientImpl's method returned
    result,         \* what the call returned to its caller
    builds,         \* per call: invocations of the factory's build
    sends,          \* per call: requests put on the wire
    build_failed,   \* per call: the build it ran failed
    sessions,       \* every session handle ever constructed
    handshakes      \* every connection handshake ever started

vars == << endpoint, rpc_opts, grpc_config, inner_client, pc, op, ctx, msg,
           client_handle, request, transport, rpc_result, result, builds,
           sends, build_failed, sessions, handshakes >>

config_vars == << endpoint, rpc_opts, grpc_config >>

Ops == { "query", "write", "route" }

Messages == { "m1" }

\* What a call holds before it is issued: no message, an empty context.
NoMessage == ""
NoContext == [tenant |-> <<>>, token |-> <<>>, timeout |-> None]

Init ==
    /\ endpoint \in Endpoints
    /\ rpc_opts \in RpcOptionsSet
    /\ grpc_config \in RpcConfigSet
    /\ inner_client = [value |-> None, permits |-> 1, closed |-> FALSE]
    /\ pc = [c \in Calls |-> "idle"]
    /\ op = [c \in Calls |-> "query"]
    /\ ctx = [c \in Calls |-> NoContext]
    /\ msg = [c \in Calls |-> NoMessage]
    /\ client_handle = [c \in Calls |-> None]
    /\ request = [c \in Calls |-> None]
    /\ transport = [c \in Calls |-> None]
    /\ rpc_result = [c \in Calls |-> None]
    /\ result = [c \in Calls |-> None]
    /\ builds = [c \in Calls |-> 0]
    /\ sends = [c \in Calls |-> 0]
    /\ build_failed = [c \in Calls |-> FALSE]
    /\ sessions = {}
    /\ handshakes = <<>>

initialized == inner_client.value # None

\* Calls are numbered in the order they are issued.
next_call(c) == pc[c] = "idle" /\ \A d \in Calls : d < c => pc[d] # "idle"

--------------------------------------------------------------------------
\* InnerClient::query_internal / write_internal up to get_or_try_init

\* A caller issues query_internal or write_internal with a fresh context.
Call(c, o, x, m) ==
    /\ next_call(c)
    /\ o \in { "query", "write" }
    /\ pc' = [pc EXCEPT ![c] = "get"]
    /\ op' = [op EXCEPT ![c] = o]
    /\ ctx' = [ctx EXCEPT ![c] = x]
    /\ msg' = [msg EXCEPT ![c] = m]
    /\ UNCHANGED << config_vars, inner_client, client_handle, request,
                    transport, rpc_result, result, builds, sends,
                    build_failed, sessions, handshakes >>

\* route is a method of the session itself: its caller holds the handle.
CallRoute(c, x, m) ==
    /\ next_call(c)
    /\ initialized
    /\ pc' = [pc EXCEPT ![c] = "rpc"]
    /\ op' = [op EXCEPT ![c] = "route"]
    /\ ctx' = [ctx EXCEPT ![c] = x]
    /\ msg' = [msg EXCEPT ![c] = m]
    /\ client_handle' = [client_handle EXCEPT ![c] = inner_client.value]
    /\ UNCHANGED << config_vars, inner_client, request, transport,
                    rpc_result, result, builds, sends, build_failed,
                    sessions, handshakes >>

\* OnceCell::get_or_try_init, fast path: the cell is set.
get_initialized(c) ==
    /\ pc[c] = "get"
    /\ initialized
    /\ pc' = [pc EXCEPT ![c] = "rpc"]
    /\ client_handle' = [client_handle EXCEPT ![c] = inner_client.value]
    /\ UNCHANGED << config_vars, inner_client, op, ctx, msg, request,
                    transport, rpc_result, result, builds, sends,
                    build_failed, sessions, handshakes >>

\* OnceCell::get_or_try_init, slow path: go and acquire the semaphore.
get_uninitialized(c) ==
    /\ pc[c] = "get"
    /\ ~initialized
    /\ pc' = [pc EXCEPT ![c] = "acquire"]
    /\ UNCHANGED << config_vars, inner_client, op, ctx, msg, client_handle,
                    request, transport, rpc_result, result, builds, sends,
                    build_failed, sessions, handshakes >>

\* semaphore.acquire() fails because set_value closed the semaphore: the
\* waiter reads the value another caller stored.
acquire_closed(c) ==
    /\ pc[c] = "acquire"
    /\ inner_client.closed
    /\ pc' = [pc EXCEPT ![c] = "rpc"]
    /\ client_handle' = [client_handle EXCEPT ![c] = inner_client.value]
    /\ UNCHANGED << config_vars, inner_client, op, ctx, msg, request,
                    transport, rpc_result, result, builds, sends,
                    build_failed, sessions, handshakes >>

\* A semaphore that hands out permits it does not have.
can_acquire_unguarded == ~inner_client.closed

\* semaphore.acquire() hands out the permit: this caller runs init().
can_acquire == ~inner_client.closed /\ inner_client.permits > 0

\* An acquire that lets the caller in and leaves the permit where it is.
acquire_permit_free(c) ==
    /\ pc[c] = "acquire"
    /\ can_acquire
    /\ pc' = [pc EXCEPT ![c] = "init"]
    /\ UNCHANGED << config_vars, inner_client, op, ctx, msg, client_handle,
                    request, transport, rpc_result, result, builds, sends,
                    build_failed, sessions, handshakes >>

acquire_permit(c) ==
    /\ pc[c] = "acquire"
    /\ can_acquire
    /\ inner_client' = [inner_client EXCEPT !.permits = @ - 1]
    /\ pc' = [pc EXCEPT ![c] = "init"]
    /\ UNCHANGED << config_vars, op, ctx, msg, client_handle, request,
                    transport, rpc_result, result, builds, sends,
                    build_failed, sessions, handshakes >>

\* A failed initialisation that keeps the permit: the failure is cached.
release_permit_kept(cell) == cell

\* Dropping the permit on the error path of get_or_try_init.
release_permit(cell) == [cell EXCEPT !.permits = @ + 1]

\* A set_value that stores the value but leaves the semaphore open and
\* empty: nobody wakes the waiters.
set_value_unclosed(cell, v) == [cell EXCEPT !.value = Some(v)]

\* A set_value that hands the permit back instead of closing the semaphore.
set_value_reopened(cell, v) ==
    [cell EXCEPT !.value = Some(v), !.permits = @ + 1]

\* OnceCell::set_value: store the value and close the semaphore.
set_value(cell, v) == [cell EXCEPT !.value = Some(v), !.closed = TRUE]

Connect(addr, source) == [kind |-> "Connect", addr |-> addr, source |-> source]

\* init() -> factory.build(endpoint), up to connect().await: parse and
\* configure the endpoint. A malformed endpoint ends the call right here.
build(c) ==
    /\ pc[c] = "init"
    /\ builds' = [builds EXCEPT ![c] = @ + 1]
    /\ LET endpoint_with_scheme == make_endpoint_with_scheme(endpoint)
           parsed == from_shared(endpoint_with_scheme)
       IN  IF ~parsed.ok
           THEN /\ inner_client' = release_permit(inner_client)
                /\ build_failed' = [build_failed EXCEPT ![c] = TRUE]
                /\ result' = [result EXCEPT ![c] =
                                Some(Err(Connect(endpoint, parsed.error)))]
                /\ pc' = [pc EXCEPT ![c] = "done"]
                /\ UNCHANGED handshakes
           ELSE /\ handshakes' = Append(handshakes,
                        configure(parsed.value, rpc_opts, grpc_config))
                /\ pc' = [pc EXCEPT ![c] = "connect"]
                /\ UNCHANGED << inner_client, build_failed, result >>
    /\ UNCHANGED << config_vars, op, ctx, msg, client_handle, request,
                    transport, rpc_result, sends, sessions >>

\* connect() succeeded: build wraps the channel into a new session, and
\* get_or_try_init stores it in the cell.
connect_ok(c) ==
    /\ pc[c] = "connect"
    /\ LET channel == handshakes[Len(handshakes)]
           session == [id |-> Cardinality(sessions) + 1,
                       client |-> RpcClientImpl_new(channel,
                                      rpc_opts.read_timeout,
                                      rpc_opts.write_timeout)]
       IN  /\ sessions' = sessions \cup {session}
           /\ inner_client' = set_value(inner_client, session)
           /\ client_handle' = [client_handle EXCEPT ![c] = Some(session)]
    /\ pc' = [pc EXCEPT ![c] = "rpc"]
    /\ UNCHANGED << config_vars, op, ctx, msg, request, transport,
                    rpc_result, result, builds, sends, build_failed,
                    handshakes >>

\* A failed initialisation whose error is handed to every waiting caller.
connect_err_broadcast(c) ==
    /\ pc[c] = "connect"
    /\ inner_client' = release_permit(inner_client)
    /\ build_failed' = [build_failed EXCEPT ![c] = TRUE]
    /\ result' = [d \in Calls |->
                    IF d = c \/ pc[d] = "acquire"
                    THEN Some(Err(Connect(endpoint, "TransportError")))
                    ELSE result[d]]
    /\ pc' = [d \in Calls |->
                IF d = c \/ pc[d] = "acquire" THEN "done" ELSE pc[d]]
    /\ UNCHANGED << config_vars, op, ctx, msg, client_handle, request,
                    transport, rpc_result, builds, sends, sessions,
                    handshakes >>

\* connect() failed: build returns Connect, the permit is dropped and the
\* error leaves query_internal / write_internal through `?`.
connect_err(c) ==
    /\ pc[c] = "connect"
    /\ inner_client' = release_permit(inner_client)
    /\ build_failed' = [build_failed EXCEPT ![c] = TRUE]
    /\ result' = [result EXCEPT ![c] =
                    Some(Err(Connect(endpoint, "TransportError")))]
    /\ pc' = [pc EXCEPT ![c] = "done"]
    /\ UNCHANGED << config_vars, op, ctx, msg, client_handle, request,
                    transport, rpc_result, builds, sends, sessions,
                    handshakes >>

\* An abandoned initialisation that takes its permit along.
abandon_leaking(c) ==
    /\ pc[c] = "connect"
    /\ pc' = [pc EXCEPT ![c] = "dropped"]
    /\ UNCHANGED << config_vars, inner_client, op, ctx, msg, client_handle,
                    request, transport, rpc_result, result, builds, sends,
                    build_failed, sessions, handshakes >>

\* The caller drops the future of its call while connect() is pending:
\* the handshake is cancelled, nothing is stored, and the permit the
\* future held goes back to the semaphore. (Dropping a call at another
\* await touches nothing but the call itself.)
abandon(c) ==
    /\ pc[c] = "connect"
    /\ inner_client' = release_permit(inner_client)
    /\ pc' = [pc EXCEPT ![c] = "dropped"]
    /\ UNCHANGED << config_vars, op, ctx, msg, client_handle, request,
                    transport, rpc_result, result, builds, sends,
                    build_failed, sessions, handshakes >>

--------------------------------------------------------------------------
\* RpcClientImpl::query / write / route

\* What the wrapper in inner.rs makes of the method's result; route has
\* no wrapper.
returned(o, rpc, converts) ==
    CASE o = "query" -> query_internal_result(rpc, converts)
      [] o = "write" -> write_internal_result(rpc)
      [] o = "route" -> rpc

\* The request a method builds for its operation kind.
make_op_request(self, o, x, m) ==
    CASE o = "query" -> make_query_request(self, x, m)
      [] o = "write" -> make_write_request(self, x, m)
      [] o = "route" -> make_request(x, m, self.default_write_timeout)

\* The method up to its await: build the interceptor (or fail), build the
\* request, let the interceptor stamp it and put it on the channel.
rpc_send(c) ==
    /\ pc[c] = "rpc"
    /\ LET self == client_handle[c][1].client
           interceptor == AuthInterceptor_new(ctx[c])
       IN  IF ~interceptor.ok
           THEN /\ rpc_result' = [rpc_result EXCEPT ![c] = Some(interceptor)]
                /\ result' = [result EXCEPT ![c] =
                                Some(returned(op[c], interceptor, TRUE))]
                /\ pc' = [pc EXCEPT ![c] = "done"]
                /\ UNCHANGED << request, sends >>
           ELSE /\ request' = [request EXCEPT ![c] =
                        Some([method |-> op[c],
                              channel |-> self.channel,
                              request |-> AuthInterceptor_call(
                                  interceptor.value,
                                  make_op_request(self, op[c], ctx[c], msg[c]))])]
                /\ sends' = [sends EXCEPT ![c] = @ + 1]
                /\ pc' = [pc EXCEPT ![c] = "sent"]
                /\ UNCHANGED << rpc_result, result >>
    /\ UNCHANGED << config_vars, inner_client, op, ctx, msg, client_handle,
                    transport, builds, build_failed, sessions, handshakes >>

\* A method that throws the session away when the transport fails.
rpc_transport_err_reset(c) ==
    /\ pc[c] = "sent"
    /\ inner_client' = [value |-> None, permits |-> 1, closed |-> FALSE]
    /\ LET answer == Err("Status")
           rpc == on_response(answer)
       IN  /\ transport' = [transport EXCEPT ![c] = Some(answer)]
           /\ rpc_result' = [rpc_result EXCEPT ![c] = Some(rpc)]
           /\ result' = [result EXCEPT ![c] = Some(returned(op[c], rpc, TRUE))]
    /\ pc' = [pc EXCEPT ![c] = "done"]
    /\ UNCHANGED << config_vars, op, ctx, msg, client_handle, request,
                    builds, sends, build_failed, sessions, handshakes >>

\* A method that answers a transport failure by starting over.
rpc_transport_err_retry(c) ==
    /\ pc[c] = "sent"
    /\ pc' = [pc EXCEPT ![c] = "rpc"]
    /\ UNCHANGED << config_vars, inner_client, op, ctx, msg, client_handle,
                    request, transport, rpc_result, result, builds, sends,
                    build_failed, sessions, handshakes >>

\* The transport fails the call (network error, deadline, reset).
rpc_transport_err(c) ==
    /\ pc[c] = "sent"
    /\ LET answer == Err("Status")
           rpc == on_response(answer)
       IN  /\ transport' = [transport EXCEPT ![c] = Some(answer)]
           /\ rpc_result' = [rpc_result EXCEPT ![c] = Some(rpc)]
           /\ result' = [result EXCEPT ![c] = Some(returned(op[c], rpc, TRUE))]
    /\ pc' = [pc EXCEPT ![c] = "done"]
    /\ UNCHANGED << config_vars, inner_client, op, ctx, msg, client_handle,
                    request, builds, sends, build_failed, sessions,
                    handshakes >>

\* The transport delivers a response message.
rpc_response(c, resp, converts) ==
    /\ pc[c] = "sent"
    /\ LET answer == Ok(resp)
           rpc == on_response(answer)
       IN  /\ transport' = [transport EXCEPT ![c] = Some(answer)]
           /\ rpc_result' = [rpc_result EXCEPT ![c] = Some(rpc)]
           /\ result' = [result EXCEPT ![c] =
                            Some(returned(op[c], rpc, converts))]
    /\ pc' = [pc EXCEPT ![c] = "done"]
    /\ UNCHANGED << config_vars, inner_client, op, ctx, msg, client_handle,
                    request, builds, sends, build_failed, sessions,
                    handshakes >>

--------------------------------------------------------------------------

Next ==
    \E c \in Calls :
        \/ \E o \in Ops, x \in RpcContexts, m \in Messages : Call(c, o, x, m)
        \/ \E x \in RpcContexts, m \in Messages : CallRoute(c, x, m)
        \/ get_initialized(c)
        \/ get_uninitialized(c)
        \/ acquire_closed(c)
        \/ acquire_permit(c)
        \/ build(c)
        \/ connect_ok(c)
        \/ connect_err(c)
        \/ abandon(c)
        \/ rpc_send(c)
        \/ rpc_transport_err(c)
        \/ \E resp \in Responses, converts \in BOOLEAN :
               rpc_response(c, resp, converts)

Spec == Init /\ [][Next]_vars

\* The runtime polls every call that can make progress, the semaphore
\* serves its waiters, and every handshake and every request in flight
\* comes to an end. Nothing obliges a caller to issue a call or to drop one.
Fairness ==
    \A c \in Calls :
        /\ WF_vars(get_initialized(c))
        /\ WF_vars(get_uninitialized(c))
        /\ WF_vars(acquire_closed(c))
        /\ WF_vars(acquire_permit(c))
        /\ WF_vars(build(c))
        /\ WF_vars(connect_ok(c) \/ connect_err(c))
        /\ WF_vars(rpc_send(c))
        /\ WF_vars(rpc_transport_err(c)
                   \/ \E resp \in Responses, converts \in BOOLEAN :
                          rpc_response(c, resp, converts))

FairSpec == Spec /\ Fairness

--------------------------------------------------------------------------
\* Derived quantities

RECURSIVE SumOver(_, _)
SumOver(f, S) ==
    IF S = {} THEN 0
    ELSE LET c == CHOOSE c \in S : TRUE IN f[c] + SumOver(f, S \ {c})

\* Invocations of the factory's build so far, and those that failed.
total_builds == SumOver(builds, Calls)
failed_builds == Cardinality({ c \in Calls : build_failed[c] })

\* Builds whose caller was dropped while they were in flight.
abandoned_builds == Cardinality({ c \in Calls : pc[c] = "dropped" })

\* The call has obtained a session handle from get_or_try_init.
has_handle(c) == client_handle[c] # None

\* The call came through query_internal or write_internal.
via_inner(c) == pc[c] # "idle" /\ op[c] \in { "query", "write" }

--------------------------------------------------------------------------
\* Claims

\* C1: for concurrent first calls (any mix of query_internal and
\* write_internal) on a fresh client, and as long as no build has failed
\* or been abandoned, the factory's build has run at most once, it has run
\* exactly once as soon as any call holds a handle, and every call that
\* holds a handle holds the one session stored in the cell.
C1_SingleInit ==
    /\ \A c \in Calls :
          has_handle(c) =>
              /\ client_handle[c] = inner_client.value
              /\ total_builds >= 1
    /\ (failed_builds = 0 /\ abandoned_builds = 0) => total_builds <= 1

\* Calls of both kinds raced for the first use, one build ran, and all of
\* them are about to dispatch through the same handle.
C1_Witness ==
    /\ \A c \in Calls : via_inner(c) /\ pc[c] = "rpc" /\ has_handle(c)
    /\ \E c, d \in Calls : op[c] = "query" /\ op[d] = "write"
    /\ total_builds = 1
    /\ failed_builds = 0
    /\ abandoned_builds = 0

\* C2: at most one session is ever constructed per client, whatever the
\* interleaving of calls and the pattern of build failures.
C2_AtMostOneSession == Cardinality(sessions) <= 1

\* A session exists although an earlier build failed, and every call is
\* over.
C2_Witness ==
    /\ Cardinality(sessions) = 1
    /\ failed_builds >= 1
    /\ \A c \in Calls : pc[c] = "done"

\* C3: a failed initialisation is not cached. The step in which a build
\* fails leaves the cell unset with its permit available; and from then on
\* a call that leaves get_or_try_init while the cell is unset does so by
\* starting a build of its own, which invokes the factory.
C3_RetryAfterFailure ==
    [][\A c \in Calls :
          /\ (build_failed'[c] /\ ~build_failed[c]) =>
                 (~initialized' /\ can_acquire')
          /\ (/\ failed_builds >= 1
              /\ pc[c] \in { "get", "acquire" }
              /\ pc'[c] \notin { "get", "acquire" }
              /\ ~initialized) => pc'[c] = "init"
          /\ (pc[c] = "init" /\ pc'[c] # "init") =>
                 builds'[c] = builds[c] + 1
      ]_vars

\* After a failed build, the next call ran a build of its own, which
\* succeeded, and it dispatches through the session now stored in the cell.
C3_Witness ==
    \E a, b \in Calls :
        /\ build_failed[a] /\ pc[a] = "done"
        /\ builds[b] = 1 /\ ~build_failed[b]
        /\ pc[b] = "sent"
        /\ client_handle[b] = inner_client.value

\* The credentials of the call's context can be encoded as metadata.
valid_credentials(c) == parse(ctx[c].tenant).ok /\ parse(ctx[c].token).ok

\* "Ok" or the kind of the error, for a result an operation returned.
outcome(r) == IF r.ok THEN "Ok" ELSE r.error.kind

\* The transport delivered a response message to the call.
answered(c) == transport[c] # None /\ transport[c][1].ok
response_of(c) == transport[c][1].value

\* C4: a call whose tenant or token cannot be encoded fails with AuthFail
\* before any network I/O: it starts no build, no handshake, sends no
\* request, and what it returns is AuthFail.
C4_AuthFailBeforeIO ==
    \A c \in Calls :
        (pc[c] # "idle" /\ ~valid_credentials(c)) =>
            /\ pc[c] \notin { "init", "connect" }
            /\ builds[c] = 0
            /\ sends[c] = 0
            /\ pc[c] = "done" => outcome(result[c][1]) = "AuthFail"

\* C5: a response that carries no header is a failure of the call, for
\* query, write and route alike.
C5_MissingHeaderFails ==
    \A c \in Calls :
        (pc[c] = "done" /\ answered(c) /\ response_of(c).header = None) =>
            ~rpc_result[c][1].ok

\* C6: a response whose header carries the success code returns its
\* payload; any other code yields a Server error with exactly the header's
\* code and message, and neither the method nor the call returns a payload.
C6_HeaderDecides ==
    \A c \in Calls :
        (pc[c] = "done" /\ answered(c) /\ response_of(c).header # None) =>
            LET header == response_of(c).header[1]
                rpc == rpc_result[c][1]
            IN  IF header.code = SuccessCode
                THEN rpc.ok /\ rpc.value.payload = response_of(c).payload
                ELSE /\ rpc = Err([kind |-> "Server", code |-> header.code,
                                   msg |-> header.error])
                     /\ result[c][1] = rpc

\* A route call came back with the server's failure and another call with
\* its payload.
C6_Witness ==
    \E a, b \in Calls :
        /\ pc[a] = "done" /\ op[a] = "route" /\ answered(a)
        /\ rpc_result[a][1] =
               Err([kind |-> "Server", code |-> 1, msg |-> "tenant not found"])
        /\ pc[b] = "done" /\ op[b] = "write" /\ answered(b)
        /\ response_of(b).header # None
        /\ rpc_result[b][1].ok

\* C7: the deadline of every request is the timeout of the call's context
\* when it has one; otherwise the read default of the session for query
\* and its write default for write and route.
C7_Deadline ==
    \A c \in Calls :
        request[c] # None =>
            LET self == client_handle[c][1].client
            IN  request[c][1].request.timeout =
                    IF ctx[c].timeout # None
                    THEN ctx[c].timeout[1]
                    ELSE IF op[c] = "query"
                         THEN self.default_read_timeout
                         ELSE self.default_write_timeout

\* A query and a route, both without override, are on the wire with the
\* read default and the write default of the session, which differ.
C7_Witness ==
    \E a, b \in Calls :
        /\ op[a] = "query" /\ request[a] # None /\ ctx[a].timeout = None
        /\ op[b] = "route" /\ request[b] # None /\ ctx[b].timeout = None
        /\ request[a][1].request.timeout # request[b][1].request.timeout

\* C8: every request on the wire carries, under x-ceresdb-access-tenant,
\* the tenant of its own call's context, byte for byte.
C8_OwnTenant ==
    \A c \in Calls :
        request[c] # None =>
            LET metadata == request[c][1].request.metadata
            IN  /\ RPC_HEADER_TENANT_KEY \in DOMAIN metadata
                /\ metadata[RPC_HEADER_TENANT_KEY] = ctx[c].tenant

\* Two calls with different tenants are in flight on the same session.
C8_Witness ==
    \E a, b \in Calls :
        /\ pc[a] = "sent" /\ pc[b] = "sent"
        /\ ctx[a].tenant # ctx[b].tenant
        /\ client_handle[a] = client_handle[b]
        /\ request[a][1].channel = request[b][1].channel

\* C9: no call retries. A call sends at most one request and runs at most
\* one build; its one step out of "sent" ends it with the payload, an Rpc
\* error or a Server error; and a call that is over stays as it is.
C9_NoRetry ==
    [][\A c \in Calls :
          /\ sends'[c] <= 1
          /\ builds'[c] <= 1
          /\ (pc[c] = "sent" /\ pc'[c] # "sent") =>
                 /\ pc'[c] = "done"
                 /\ outcome(rpc_result'[c][1]) \in { "Ok", "Rpc", "Server" }
          /\ pc[c] = "done" =>
                 /\ pc'[c] = "done"
                 /\ result'[c] = result[c]
                 /\ sends'[c] = sends[c]
                 /\ builds'[c] = builds[c]
      ]_vars

\* A call that built the session and sent its request is over with an Rpc
\* error while another call is still running.
C9_Witness ==
    \E c, d \in Calls :
        /\ pc[c] = "done" /\ builds[c] = 1 /\ sends[c] = 1
        /\ outcome(result[c][1]) = "Rpc"
        /\ pc[d] = "sent"

\* C10: a call that is over returns the error of the stage that failed:
\* Connect exactly when its build failed, AuthFail exactly when it reached
\* the dispatch with unencodable credentials, Rpc (around the transport's
\* cause) exactly when the transport failed, Server exactly when the
\* header reports a failure; and it returns a success only if none of
\* these happened.
C10_TypedErrors ==
    \A c \in Calls :
        pc[c] = "done" =>
            /\ result[c] # None
            /\ LET kind == outcome(result[c][1])
                   header_fails ==
                       /\ answered(c)
                       /\ response_of(c).header # None
                       /\ response_of(c).header[1].code # SuccessCode
               IN  /\ kind = "Connect" <=> build_failed[c]
                   /\ kind = "AuthFail" <=>
                          (has_handle(c) /\ ~valid_credentials(c))
                   /\ kind = "Rpc" <=>
                          (transport[c] # None /\ ~transport[c][1].ok)
                   /\ kind = "Rpc" =>
                          result[c][1].error.source = transport[c][1].error
                   /\ kind = "Server" <=> header_fails
                   /\ kind = "Ok" =>
                          /\ ~build_failed[c]
                          /\ valid_credentials(c)
                          /\ answered(c)
                          /\ ~header_fails

\* Two calls are over: one with Connect, the other, which rebuilt the
\* session, with Rpc.
C10_Witness ==
    \E a, b \in Calls :
        /\ pc[a] = "done" /\ outcome(result[a][1]) = "Connect"
        /\ pc[b] = "done" /\ outcome(result[b][1]) = "Rpc"

C12_ReadyIsStable ==
    [][initialized =>
          /\ inner_client'.value = inner_client.value
          /\ sessions' = sessions
          /\ total_builds' = total_builds
          /\ \A c \in Calls :
                 client_handle'[c] # None =>
                     client_handle'[c] = inner_client.value
      ]_vars

\* A call on the session ended with an Rpc error, and a call that never
\* built has its request in flight on the same session.
C12_Witness ==
    \E a, b \in Calls :
        /\ pc[a] = "done" /\ outcome(result[a][1]) = "Rpc"
        /\ pc[b] = "sent" /\ builds[b] = 0
        /\ client_handle[b] = client_handle[a]
        /\ client_handle[b] = inner_client.value

\* The endpoint string the client was given is a well-formed host:port.
endpoint_ok ==
    Len(endpoint) > 0 /\ \A i \in 1..Len(endpoint) : is_uri_byte(endpoint[i])

\* C13: a build on a malformed endpoint fails with Connect without any
\* handshake; on a well-formed endpoint every build starts exactly one
\* handshake, against "http://" followed by that very endpoint; and
\* every failed build returns Connect carrying the endpoint as given.
C13_BuildEndpoint ==
    /\ \A c \in Calls :
          build_failed[c] =>
              /\ result[c] # None
              /\ outcome(result[c][1]) = "Connect"
              /\ result[c][1].error.addr = endpoint
    /\ IF endpoint_ok
       THEN /\ Len(handshakes) = total_builds
            /\ \A i \in 1..Len(handshakes) :
                   handshakes[i].uri =
                       <<104, 116, 116, 112, 58, 47, 47>> \o endpoint
       ELSE /\ handshakes = <<>>
            /\ sessions = {}
            /\ \A c \in Calls : builds[c] >= 1 => build_failed[c]

\* On the malformed endpoint two calls have each run a build, and both
\* came back with Connect while no handshake was ever started.
C13_Witness ==
    /\ ~endpoint_ok
    /\ handshakes = <<>>
    /\ \A c \in Calls :
          /\ builds[c] = 1
          /\ pc[c] = "done"
          /\ result[c][1] = Err(Connect(endpoint, "InvalidUri"))

\* C14: with keep_alive_while_idle off, a build applies the connect
\* timeout and switches keep-alive off, setting neither keep-alive timeout
\* nor interval; with it on, it applies the connect timeout and the
\* configured keep-alive timeout and interval. Either way the session's
\* read and write defaults are the configured read and write timeouts.
C14_KeepAlive ==
    /\ \A i \in 1..Len(handshakes) :
          LET h == handshakes[i]
          IN  /\ h.connect_timeout = rpc_opts.connect_timeout
              /\ h.keep_alive_while_idle = grpc_config.keep_alive_while_idle
              /\ IF grpc_config.keep_alive_while_idle
                 THEN /\ h.keep_alive_timeout =
                             Some(grpc_config.keep_alive_timeout)
                      /\ h.http2_keep_alive_interval =
                             Some(grpc_config.keep_alive_interval)
                 ELSE /\ h.keep_alive_timeout = None
                      /\ h.http2_keep_alive_interval = None
    /\ \A s \in sessions :
          /\ s.client.default_read_timeout = rpc_opts.read_timeout
          /\ s.client.default_write_timeout = rpc_opts.write_timeout
          /\ \E i \in 1..Len(handshakes) : s.client.channel = handshakes[i]

\* With keep-alive off, a session was built over a channel that carries
\* the connect timeout and no keep-alive setting.
C14_Witness ==
    /\ ~grpc_config.keep_alive_while_idle
    /\ \E s \in sessions :
          /\ inner_client.value = Some(s)
          /\ s.client.channel.connect_timeout = 3
          /\ s.client.channel.keep_alive_timeout = None
          /\ s.client.default_read_timeout = 5
          /\ s.client.default_write_timeout = 7

\* C15: the token is validated and never transmitted. Two requests whose
\* calls differ in nothing but the token are identical, the tenant key is
\* the only metadata a request carries, and a call that reaches the
\* dispatch with an encodable tenant and an unencodable token returns
\* AuthFail(InvalidTokenMeta) without sending anything.
C15_TokenNotSent ==
    /\ \A c, d \in Calls :
          (/\ request[c] # None /\ request[d] # None
           /\ op[c] = op[d] /\ msg[c] = msg[d]
           /\ ctx[c].tenant = ctx[d].tenant
           /\ ctx[c].timeout = ctx[d].timeout) => request[c] = request[d]
    /\ \A c \in Calls :
          request[c] # None =>
              DOMAIN request[c][1].request.metadata = {RPC_HEADER_TENANT_KEY}
    /\ \A c \in Calls :
          (/\ pc[c] = "done" /\ has_handle(c)
           /\ parse(ctx[c].tenant).ok /\ ~parse(ctx[c].token).ok) =>
              /\ ~rpc_result[c][1].ok
              /\ rpc_result[c][1].error.kind = "AuthFail"
              /\ rpc_result[c][1].error.code = "InvalidTokenMeta"
              /\ request[c] = None
              /\ sends[c] = 0

\* Two writes with the same tenant and different valid tokens are on the
\* wire, and their requests are the same.
C15_Witness ==
    \E c, d \in Calls :
        /\ pc[c] = "sent" /\ pc[d] = "sent"
        /\ op[c] = "write" /\ op[d] = "write"
        /\ ctx[c].tenant = ctx[d].tenant
        /\ ctx[c].token = <<107>> /\ ctx[d].token = <<107, 50>>
        /\ request[c] = request[d]

\* The calls whose initialisation is running.
in_flight == { c \in Calls : pc[c] \in { "init", "connect" } }

\* C16: at most one build is in flight per client, and while it is, the
\* semaphore has no permit to give: every other caller that needs the
\* session stays waiting.
C16_OneBuildInFlight ==
    /\ Cardinality(in_flight) <= 1
    /\ in_flight # {} => (inner_client.permits = 0 /\ ~can_acquire)
    /\ in_flight # {} => ~initialized

\* One caller's handshake is pending while another caller waits for the
\* permit.
C16_Witness ==
    \E c, d \in Calls :
        /\ pc[c] = "connect"
        /\ pc[d] = "acquire"
        /\ ~can_acquire

\* C17: a call returns Connect only in the step in which the build it ran
\* itself fails. That step leaves every other call where it is, without a
\* result; and a caller that stops waiting either starts a build of its
\* own or takes the session that is stored in the cell.
C17_OwnBuildOnly ==
    [][\A c \in Calls :
          /\ (result'[c] # result[c] /\ outcome(result'[c][1]) = "Connect") =>
                 /\ pc[c] \in { "init", "connect" }
                 /\ builds'[c] = 1
                 /\ build_failed'[c] /\ ~build_failed[c]
          /\ \A a \in Calls \ {c} :
                 (build_failed'[a] /\ ~build_failed[a]) =>
                     (pc'[c] = pc[c] /\ result'[c] = result[c])
          /\ (pc[c] = "acquire" /\ pc'[c] # "acquire") =>
                 \/ pc'[c] = "init"
                 \/ /\ pc'[c] = "rpc"
                    /\ initialized
                    /\ client_handle'[c] = inner_client.value
      ]_vars

\* A build has failed and its caller has Connect; the other caller is
\* still waiting, has no result, and the permit is free for it.
C17_Witness ==
    \E a, b \in Calls :
        /\ build_failed[a] /\ outcome(result[a][1]) = "Connect"
        /\ pc[b] = "acquire" /\ result[b] = None
        /\ can_acquire

\* C18: when the caller that runs the initialisation is dropped while the
\* handshake is pending, the cell is left unset with its permit available
\* and no session is constructed or handed to anyone; the cell is never
\* left unset, idle and locked; and a handle a call holds is always a
\* fully constructed session.
C18_AbandonedInit ==
    [][/\ \A c \in Calls :
             (pc[c] = "connect" /\ pc'[c] = "dropped") =>
                 /\ ~initialized'
                 /\ can_acquire'
                 /\ sessions' = sessions
                 /\ client_handle' = client_handle
                 /\ result' = result
       /\ (~initialized' /\ in_flight' = {}) => can_acquire'
       /\ \A c \in Calls :
             client_handle'[c] # None => client_handle'[c][1] \in sessions'
      ]_vars

\* The first builder was dropped; the next caller ran a fresh build, which
\* succeeded, and its request is in flight on that session.
C18_Witness ==
    \E a, b \in Calls :
        /\ pc[a] = "dropped" /\ builds[a] = 1 /\ client_handle[a] = None
        /\ builds[b] = 1 /\ pc[b] = "sent"
        /\ client_handle[b] = inner_client.value
        /\ Cardinality(sessions) = 1

\* C19: the tenant is validated before the token. A call that reaches the
\* dispatch with an unencodable tenant returns AuthFail(InvalidTenantMeta)
\* whatever its token is, and InvalidTokenMeta is returned only for an
\* encodable tenant with an unencodable token.
C19_TenantFirst ==
    \A c \in Calls :
        (pc[c] = "done" /\ rpc_result[c] # None
         /\ outcome(rpc_result[c][1]) = "AuthFail") =>
            LET code == rpc_result[c][1].error.code
            IN  /\ ~parse(ctx[c].tenant).ok <=> code = "InvalidTenantMeta"
                /\ code = "InvalidTokenMeta" <=>
                       (parse(ctx[c].tenant).ok /\ ~parse(ctx[c].token).ok)
                /\ result[c][1] = rpc_result[c][1]

\* A call whose tenant and token are both unencodable came back with
\* InvalidTenantMeta.
C19_Witness ==
    \E c \in Calls :
        /\ pc[c] = "done"
        /\ ~parse(ctx[c].tenant).ok /\ ~parse(ctx[c].token).ok
        /\ rpc_result[c] # None
        /\ rpc_result[c][1].error.code = "InvalidTenantMeta"

====
